---- MODULE Spec2Model ----
(***************************************************************************)
(* httpbox: the router (src/src/router/mod.rs), the streaming body adapter *)
(* (src/src/http/mod.rs) and the byte-generation handlers                  *)
(* (src/src/service/bytes.rs) as a state machine.                          *)
(*                                                                         *)
(* Spec        the life of one Router: install*, routes, build, one        *)
(*             Dispatcher, then requests awaited one at a time (the shape  *)
(*             of test_panic).                                             *)
(* SpecConc    a built Router with several Dispatchers and several         *)
(*             request futures in flight, polled in any interleaving.      *)
(* SpecStream  one body made by body_from_stream, pulled by the transport. *)
(* SpecBytes   the bytes handler answering a few requests in a row.        *)
(* SpecStreamBytes  the stream_bytes handler answering one request, and    *)
(*             the transport pulling the body of its Response.             *)
(***************************************************************************)
EXTENDS Naturals, Sequences, FiniteSets, TLC

VARIABLES
    phase,      \* "building": a RouterBuilder exists; "built": build() consumed it
    endpoints,  \* RouterBuilder.endpoints (Vec<Endpoint>)
    installed,  \* history: the (route, handler) arguments of the install calls, in call order
    listed,     \* the Vec<&Route> the last routes() call returned, while it may live
    table,      \* RouterInternal.endpoints behind the Arc (<<>> before build)
    services,   \* the RouterService values made by Router::service, in creation order
    futs,       \* the futures returned by RouterService::call that are still held
    panicked,   \* history: some handler has panicked
    input,      \* the items of the stream handed to body_from_stream
    source,     \* the items the stream has not yielded yet
    delivered,  \* the data frames the transport has pulled from the Body
    bodyDone,   \* the Body has reported its end to the transport
    polls,      \* history: how many times the transport has polled the Body
    dropped,    \* the transport has dropped the Body (the connection is gone)
    log         \* history: the byte-generation requests answered and their Responses

vars == <<phase, endpoints, installed, listed, table, services, futs, panicked,
          input, source, delivered, bodyDone, polls, dropped, log>>

routerVars == <<phase, endpoints, installed, listed, table, services, futs, panicked>>
streamVars == <<input, source, delivered, bodyDone, polls, dropped, log>>

(***************************************************************************)
(* Bounds of the model.                                                    *)
(***************************************************************************)
MaxEndpoints == 3   \* install calls per builder
MaxServices == 2    \* Dispatchers made from one Router in SpecConc
MaxInFlight == 2    \* futures held at once in SpecConc
MaxChunks == 2      \* items of a stream
MaxChunkLen == 2    \* bytes of one item

(***************************************************************************)
(* Option and Result.                                                      *)
(***************************************************************************)
None == [some |-> FALSE]
Some(x) == [some |-> TRUE, val |-> x]

Ok(r) == [t |-> "ok", resp |-> r]
Err(e) == [t |-> "err", err |-> e]

\* A Response: status, the typed headers the handlers set, and body. A body is
\* text or bytes; both fields are kept.
TextBody(s) == [text |-> s, data |-> <<>>]
DataBody(d) == [text |-> "", data |-> d]
NoHeaders == [content_type |-> "", content_length |-> None]
Response(status, headers, body) == [status |-> status, headers |-> headers, body |-> body]

(***************************************************************************)
(* crate::http errors.                                                     *)
(***************************************************************************)
\* An Error: a status, a message, and whether its headers can be put on the wire.
HttpError(status, msg, wire) == [status |-> status, msg |-> msg, wire |-> wire]

not_found == HttpError(404, "Not Found", TRUE)
internal_server_error == HttpError(500, "Internal Server Error", TRUE)
bad_request == HttpError(400, "Bad Request", TRUE)

\* Error::into_result: the Response with the error's status and a body made of its
\* message, or the transport-level conversion failure.
into_result(e) ==
    IF e.wire THEN [t |-> "ok", resp |-> Response(e.status, NoHeaders, TextBody(e.msg))]
    ELSE [t |-> "hard_error"]

(***************************************************************************)
(* Routes and requests.                                                    *)
(***************************************************************************)
Lit(s) == [kind |-> "lit", v |-> s]
Cap(n) == [kind |-> "cap", v |-> n]
Route(m, p) == [method |-> m, path |-> p]
HTTPRequest(m, p, q) == [method |-> m, path |-> p, query |-> q]

\* Path::matches, segment by segment: None when the counts differ, a literal
\* differs or a capture faces an empty segment; else the captures as a set of
\* (name, value) pairs.
RECURSIVE MatchSegments(_, _)
MatchSegments(pat, segs) ==
    IF pat = <<>> THEN (IF segs = <<>> THEN Some({}) ELSE None)
    ELSE IF segs = <<>> THEN None
    ELSE LET p == Head(pat)
             s == Head(segs)
             rest == MatchSegments(Tail(pat), Tail(segs))
         IN  IF p.kind = "lit"
             THEN (IF p.v = s THEN rest ELSE None)
             ELSE IF s = "" THEN None
             ELSE IF rest.some
                  THEN Some({[name |-> p.v, value |-> s]} \cup rest.val)
                  ELSE None

\* Route::matches: the method first, then the path.
matches(route, req) ==
    IF route.method # "ANY" /\ route.method # req.method THEN None
    ELSE MatchSegments(route.path, req.path)

Endpoint(route, handler) == [route |-> route, handler |-> handler]

(***************************************************************************)
(* RouterBuilder.                                                          *)
(***************************************************************************)
\* A builder that registers at the front.
install_prepend(eps, handler, route) == <<Endpoint(route, handler)>> \o eps

install(eps, handler, route) == Append(eps, Endpoint(route, handler))

routes(eps) == [i \in 1..Len(eps) |-> eps[i].route]

build(eps) == eps

(***************************************************************************)
(* RouterInternal::route: find_map over the endpoints in order. The result *)
(* is None or Some of the endpoint's index and the Path Match.             *)
(***************************************************************************)
RECURSIVE FindMap(_, _, _)
FindMap(eps, i, req) ==
    IF i > Len(eps) THEN None
    ELSE LET m == matches(eps[i].route, req)
         IN  IF m.some THEN Some([index |-> i, params |-> m.val])
             ELSE FindMap(eps, i + 1, req)

\* A lookup that keeps the last match.
RECURSIVE FindLast(_, _, _)
FindLast(eps, i, req) ==
    IF i < 1 THEN None
    ELSE LET m == matches(eps[i].route, req)
         IN  IF m.some THEN Some([index |-> i, params |-> m.val])
             ELSE FindLast(eps, i - 1, req)

route_last_match(eps, req) == FindLast(eps, Len(eps), req)

\* A lookup that falls back on the first endpoint when none matches.
route_fallback(eps, req) ==
    IF FindMap(eps, 1, req).some \/ eps = <<>> THEN FindMap(eps, 1, req)
    ELSE Some([index |-> 1, params |-> {}])

route(eps, req) == FindMap(eps, 1, req)

(***************************************************************************)
(* crate::http::Request: the raw request, the peer address and the Path    *)
(* Match.                                                                  *)
(***************************************************************************)
\* A Request built without the Path Match.
RequestNew_drops_match(req, client_addr, matched_path) ==
    [req |-> req, client_addr |-> client_addr, params |-> {}]

RequestNew(req, client_addr, matched_path) ==
    [req |-> req, client_addr |-> client_addr, params |-> matched_path]

\* Request::param, before parsing: the value captured under `name`.
param(creq, name) ==
    IF \E p \in creq.params : p.name = name
    THEN Some((CHOOSE p \in creq.params : p.name = name).value)
    ELSE None

\* str::parse::<u32> on the segments the model uses.
ParseU32(s) ==
    CASE s = "0" -> Some(0)
      [] s = "1" -> Some(1)
      [] s = "2" -> Some(2)
      [] s = "3" -> Some(3)
      [] s = "7" -> Some(7)
      [] OTHER -> None

\* Request::query::<BytesQueryParams> on the query strings the model uses.
QueryDecode(q) ==
    CASE q = "" -> Some([seed |-> None, chunk_size |-> None])
      [] q = "seed=1" -> Some([seed |-> Some(1), chunk_size |-> None])
      [] q = "seed=2" -> Some([seed |-> Some(2), chunk_size |-> None])
      [] q = "seed=1&chunk_size=2" -> Some([seed |-> Some(1), chunk_size |-> Some(2)])
      [] q = "seed=1&chunk_size=3" -> Some([seed |-> Some(1), chunk_size |-> Some(3)])
      [] q = "seed=1&chunk_size=1" -> Some([seed |-> Some(1), chunk_size |-> Some(1)])
      [] q = "seed=2&chunk_size=2" -> Some([seed |-> Some(2), chunk_size |-> Some(2)])
      [] q = "chunk_size=2" -> Some([seed |-> None, chunk_size |-> Some(2)])
      [] OTHER -> None

(***************************************************************************)
(* service::bytes.                                                         *)
(***************************************************************************)
\* The seeds rng(None) may draw from the system's entropy.
EntropySeeds == {1, 2}

\* crate::random::rng and Rng::gen::<u8>: a generator whose state is made from
\* the seed alone; each draw advances it and yields one byte.
RngNew(seed) == (seed * 7 + 1) % 256
RngStep(state) == (state * 5 + 3) % 256

RECURSIVE RngBytes(_, _)
RngBytes(state, count) ==
    IF count = 0 THEN <<>>
    ELSE <<RngStep(state)>> \o RngBytes(RngStep(state), count - 1)

\* A generator that is seeded from the system's entropy whatever seed is given.
iter_bytes_ignores_seed(count, seed) ==
    {RngBytes(RngNew(s), count) : s \in EntropySeeds}

\* iter_bytes(count, seed), collected: the possible byte sequences.
iter_bytes(count, seed) ==
    IF seed.some THEN {RngBytes(RngNew(seed.val), count)}
    ELSE {RngBytes(RngNew(s), count) : s \in EntropySeeds}

OctetStream == "application/octet-stream"

\* bytes(req): the Results it may return.
bytes(creq) ==
    LET n == IF param(creq, "n").some THEN ParseU32(param(creq, "n").val) ELSE None
        query == QueryDecode(creq.req.query)
    IN  IF ~n.some THEN {Err(bad_request)}
        ELSE IF ~query.some THEN {Err(bad_request)}
        ELSE {Ok(Response(200, [content_type |-> OctetStream, content_length |-> None],
                          DataBody(data))) : data \in iter_bytes(n.val, query.val.seed)}

(***************************************************************************)
(* Handlers. A handler is called (handle) and the future it returns is     *)
(* polled; either may panic.                                               *)
(***************************************************************************)
Pending == [t |-> "pending"]
Ready(res) == [t |-> "ready", res |-> res]
\* A panic unwinding with a payload (the message of panic!, unimplemented!, ...).
PanicWith(payload) == [t |-> "panic", payload |-> payload]
Panic == PanicWith("explicit panic")

\* Handler::handle(client_req): "future" when it returns its future, "panic" when
\* the call itself panics.
HandlerCall(h, creq) == IF h = "sync_panic" THEN "panic" ELSE "future"

\* The n-th poll of the future of handler h: the outcomes it may have.
HandlerPoll(h, creq, n) ==
    CASE h = "echo_id" ->
            {Ready(IF param(creq, "id").some
                   THEN Ok(Response(200, NoHeaders, TextBody(param(creq, "id").val)))
                   ELSE Err(bad_request))}
      [] h = "fixed" -> {Ready(Ok(Response(200, NoHeaders, TextBody("fixed"))))}
      [] h = "bytes" -> {Ready(r) : r \in bytes(creq)}
      [] h = "unimplemented" -> {PanicWith("not implemented")}
      [] h = "slow_panic" -> IF n = 1 THEN {Pending} ELSE {PanicWith("late")}
      [] h = "slow_ok" ->
            IF n = 1 THEN {Pending}
            ELSE {Ready(Ok(Response(200, NoHeaders, TextBody("slow"))))}
      [] h = "fail" ->
            {Ready(Err(IF param(creq, "id") = Some("7")
                       THEN HttpError(418, "teapot", TRUE)
                       ELSE IF param(creq, "id") = Some("500")
                       THEN internal_server_error
                       ELSE HttpError(502, "bad header", FALSE)))}
      [] OTHER -> {Panic}

(***************************************************************************)
(* Router::service and RouterService.                                      *)
(***************************************************************************)
NoAddr == None
PeerAddr == Some("10.0.0.1:4000")

\* Router::service(addr): a Dispatcher holding a clone of the Arc and the address.
service(addr) == [router |-> "arc", client_addr |-> addr]

\* A boundary that turns every failure of the handler into the internal error.
handle_panics_masks_errors(out) ==
    IF out.t = "panic" THEN Err(internal_server_error)
    ELSE IF out.res.t = "err" THEN Err(internal_server_error)
    ELSE out.res

\* handle_panics: what awaiting the wrapped future gives for an outcome of the
\* handler's future.
handle_panics(out) ==
    IF out.t = "panic" THEN Err(internal_server_error) ELSE out.res

\* .or_else(|e| e.into_result()) on the Result of the async block.
or_else(res) == IF res.t = "err" THEN into_result(res.err) ELSE res

\* A miss reported as an internal error.
route_or_internal_error(eps, req) ==
    LET r == route(eps, req)
    IN  IF r.some THEN Ok(r.val) ELSE Err(internal_server_error)

\* router.route(&req).ok_or_else(not_found)
route_or_not_found(eps, req) ==
    LET r == route(eps, req)
    IN  IF r.some THEN Ok(r.val) ELSE Err(not_found)

\* A call that takes the peer address of the Router's first Dispatcher.
NewFuture_first_dispatcher(d, req) ==
    [svc |-> d, req |-> req,
     router |-> services[d].router, client_addr |-> services[1].client_addr,
     pc |-> "created", index |-> 0, creq |-> None, hpolls |-> 0,
     invoked |-> <<>>, panic |-> "none", result |-> None,
     during |-> FALSE, after |-> panicked]

\* RouterService::call on Dispatcher d: the future, not yet polled. It owns the
\* request, a clone of the Arc and a copy of the peer address. History kept with
\* it: `svc`, the Dispatcher it was made by (its place in `services`); `invoked`, the
\* table indexes of the endpoints whose handler was called; `panic`, where its
\* handler panicked ("none", "call", "poll"); `after`, it was made after some
\* handler had panicked; `during`, another future's handler panicked while this
\* one was unfinished.
NewFuture(d, req) ==
    [svc |-> d, req |-> req,
     router |-> services[d].router, client_addr |-> services[d].client_addr,
     pc |-> "created", index |-> 0, creq |-> None, hpolls |-> 0,
     invoked |-> <<>>, panic |-> "none", result |-> None,
     during |-> FALSE, after |-> panicked]

\* A table that a panic leaves unusable (a lock poisoned by the unwinding).
Deref_poisoned(arc) == IF panicked THEN <<>> ELSE table

\* The table a future reads through its Arc.
Deref(arc) == table

\* A boundary that guards only the first poll of the handler's future: a panic
\* in a later poll leaves the future of call.
PollFuture_unguarded_resume(f) ==
    IF f.pc = "created"
    THEN LET r == route_or_not_found(Deref(f.router), f.req)
         IN  IF r.t = "err"
             THEN {[f EXCEPT !.pc = "done", !.result = Some(or_else(r))]}
             ELSE LET ep == Deref(f.router)[r.resp.index]
                      creq == RequestNew(f.req, f.client_addr, r.resp.params)
                      g == [f EXCEPT !.index = r.resp.index, !.creq = Some(creq),
                                     !.invoked = Append(@, r.resp.index)]
                  IN  IF HandlerCall(ep.handler, creq) = "panic"
                      THEN {[g EXCEPT !.pc = "unwound", !.panic = "call"]}
                      ELSE {IF out.t = "pending"
                            THEN [g EXCEPT !.pc = "pending", !.hpolls = 1]
                            ELSE [g EXCEPT !.pc = "done", !.hpolls = 1,
                                           !.panic = IF out.t = "panic" THEN "poll" ELSE "none",
                                           !.result = Some(or_else(handle_panics(out)))]
                            : out \in HandlerPoll(ep.handler, creq, 1)}
    ELSE LET ep == Deref(f.router)[f.index]
         IN  {IF out.t = "pending"
              THEN [f EXCEPT !.hpolls = @ + 1]
              ELSE IF out.t = "panic"
              THEN [f EXCEPT !.pc = "unwound", !.hpolls = @ + 1, !.panic = "poll"]
              ELSE [f EXCEPT !.pc = "done", !.hpolls = @ + 1,
                             !.result = Some(or_else(handle_panics(out)))]
              : out \in HandlerPoll(ep.handler, f.creq.val, f.hpolls + 1)}

\* A Dispatcher that starts the request over when its handler fails: after a
\* panic or an Error the next poll routes the request and calls the handler
\* again.
PollFuture_retry(f) ==
    IF f.pc = "created"
    THEN LET r == route_or_not_found(Deref(f.router), f.req)
         IN  IF r.t = "err"
             THEN {[f EXCEPT !.pc = "done", !.result = Some(or_else(r))]}
             ELSE LET ep == Deref(f.router)[r.resp.index]
                      creq == RequestNew(f.req, f.client_addr, r.resp.params)
                      g == [f EXCEPT !.index = r.resp.index, !.creq = Some(creq),
                                     !.invoked = Append(@, r.resp.index)]
                  IN  IF HandlerCall(ep.handler, creq) = "panic"
                      THEN {[g EXCEPT !.pc = "unwound", !.panic = "call"]}
                      ELSE {IF out.t = "pending"
                            THEN [g EXCEPT !.pc = "pending", !.hpolls = 1]
                            ELSE IF Len(g.invoked) < 2 /\ (out.t = "panic" \/ out.res.t = "err")
                            THEN [g EXCEPT !.pc = "created", !.hpolls = 1]
                            ELSE [g EXCEPT !.pc = "done", !.hpolls = 1,
                                           !.panic = IF out.t = "panic" THEN "poll" ELSE "none",
                                           !.result = Some(or_else(handle_panics(out)))]
                            : out \in HandlerPoll(ep.handler, creq, 1)}
    ELSE LET ep == Deref(f.router)[f.index]
         IN  {IF out.t = "pending"
              THEN [f EXCEPT !.hpolls = @ + 1]
              ELSE [f EXCEPT !.pc = "done", !.hpolls = @ + 1,
                             !.panic = IF out.t = "panic" THEN "poll" ELSE "none",
                             !.result = Some(or_else(handle_panics(out)))]
              : out \in HandlerPoll(ep.handler, f.creq.val, f.hpolls + 1)}

\* One poll of a future of RouterService::call: the futures it may become.
PollFuture(f) ==
    IF f.pc = "created"
    THEN LET r == route_or_not_found(Deref(f.router), f.req)
         IN  IF r.t = "err"
             THEN {[f EXCEPT !.pc = "done", !.result = Some(or_else(r))]}
             ELSE LET ep == Deref(f.router)[r.resp.index]
                      creq == RequestNew(f.req, f.client_addr, r.resp.params)
                      g == [f EXCEPT !.index = r.resp.index, !.creq = Some(creq),
                                     !.invoked = Append(@, r.resp.index)]
                  IN  IF HandlerCall(ep.handler, creq) = "panic"
                      THEN {[g EXCEPT !.pc = "unwound", !.panic = "call"]}
                      ELSE {IF out.t = "pending"
                            THEN [g EXCEPT !.pc = "pending", !.hpolls = 1]
                            ELSE [g EXCEPT !.pc = "done", !.hpolls = 1,
                                           !.panic = IF out.t = "panic" THEN "poll" ELSE "none",
                                           !.result = Some(or_else(handle_panics(out)))]
                            : out \in HandlerPoll(ep.handler, creq, 1)}
    ELSE LET ep == Deref(f.router)[f.index]
         IN  {IF out.t = "pending"
              THEN [f EXCEPT !.hpolls = @ + 1]
              ELSE [f EXCEPT !.pc = "done", !.hpolls = @ + 1,
                             !.panic = IF out.t = "panic" THEN "poll" ELSE "none",
                             !.result = Some(or_else(handle_panics(out)))]
              : out \in HandlerPoll(ep.handler, f.creq.val, f.hpolls + 1)}

\* A Dispatcher that refuses new requests while it has one in flight.
poll_ready_backpressure(svc) ==
    [poll |-> IF \E i \in 1..Len(futs) : futs[i].pc \in {"created", "pending"}
              THEN Pending ELSE Ready(Ok("()")),
     svc |-> svc]

\* RouterService::poll_ready(&mut self, _cx): the Poll it returns and the
\* Dispatcher it leaves.
poll_ready(svc) == [poll |-> Ready(Ok("()")), svc |-> svc]

(***************************************************************************)
(* The inputs of the model.                                                *)
(***************************************************************************)
EndpointSet ==
    { Endpoint(Route("GET", <<Lit("items"), Cap("id")>>), "echo_id"),
      Endpoint(Route("ANY", <<Lit("items"), Lit("slow")>>), "slow_panic"),
      Endpoint(Route("ANY", <<>>), "unimplemented"),
      Endpoint(Route("GET", <<Lit("bytes"), Cap("n")>>), "bytes"),
      Endpoint(Route("POST", <<Lit("boom")>>), "sync_panic"),
      Endpoint(Route("GET", <<Lit("fail"), Cap("id")>>), "fail") }

RequestSet ==
    { HTTPRequest("GET", <<"items", "7">>, ""),
      HTTPRequest("POST", <<"items", "7">>, ""),
      HTTPRequest("GET", <<"items", "">>, ""),
      HTTPRequest("GET", <<"Items", "7">>, ""),
      HTTPRequest("GET", <<"items">>, ""),
      HTTPRequest("GET", <<"items", "7", "7">>, ""),
      HTTPRequest("GET", <<"items", "slow">>, ""),
      HTTPRequest("GET", <<>>, ""),
      HTTPRequest("GET", <<"bytes", "2">>, "seed=1"),
      HTTPRequest("GET", <<"bytes", "x">>, "seed=1"),
      HTTPRequest("GET", <<"bytes", "2">>, "seed=x"),
      HTTPRequest("POST", <<"boom">>, ""),
      HTTPRequest("GET", <<"fail", "7">>, ""),
      HTTPRequest("GET", <<"fail", "x">>, ""),
      HTTPRequest("GET", <<"fail", "500">>, "") }

AddrSet == {NoAddr, PeerAddr}

(***************************************************************************)
(* Actions of the router.                                                  *)
(***************************************************************************)
\* RouterBuilder::install(handler, route). It takes the builder by value, so no
\* Vec<&Route> borrowed from it by routes() is alive any more.
Install ==
    /\ phase = "building"
    /\ Len(endpoints) < MaxEndpoints
    /\ \E e \in EndpointSet :
          /\ endpoints' = install(endpoints, e.handler, e.route)
          /\ installed' = Append(installed, e)
    /\ listed' = <<>>
    /\ UNCHANGED <<phase, table, services, futs, panicked>>
    /\ UNCHANGED streamVars

\* RouterBuilder::routes()
Routes ==
    /\ phase = "building"
    /\ listed' = routes(endpoints)
    /\ UNCHANGED <<phase, endpoints, installed, table, services, futs, panicked>>
    /\ UNCHANGED streamVars

\* RouterBuilder::build(): the builder is consumed.
Build ==
    /\ phase = "building"
    /\ phase' = "built"
    /\ table' = build(endpoints)
    /\ endpoints' = <<>>
    /\ listed' = <<>>
    /\ UNCHANGED <<installed, services, futs, panicked>>
    /\ UNCHANGED streamVars

\* Router::service(addr), for an address of `addrs`.
ServiceFor(addrs) ==
    /\ phase = "built"
    /\ \E a \in addrs : services' = Append(services, service(a))
    /\ UNCHANGED <<phase, endpoints, installed, listed, table, futs, panicked>>
    /\ UNCHANGED streamVars

NewService == ServiceFor(AddrSet)

\* router.service(addr), once: the one Dispatcher of Spec (as in test_panic).
ServiceOnce ==
    /\ services = <<>>
    /\ NewService

\* router.service(addr), once per connection: the Dispatchers of SpecConc. Each
\* connection has a peer of its own (at most one has none known).
Service ==
    /\ Len(services) < MaxServices
    /\ ServiceFor({a \in AddrSet : \A d \in 1..Len(services) : services[d].client_addr # a})

\* RouterService::call(req) on some Dispatcher d, for a request of `reqs`.
CallOn(reqs) ==
    /\ phase = "built"
    /\ \E d \in 1..Len(services), req \in reqs :
          futs' = Append(futs, NewFuture(d, req))
    /\ UNCHANGED <<phase, endpoints, installed, listed, table, services, panicked>>
    /\ UNCHANGED streamVars

\* The caller polls (awaits) a future it holds. History: whether the handler
\* panicked in this poll, for the run and for the other unfinished futures.
Poll ==
    /\ \E i \in 1..Len(futs) :
          /\ futs[i].pc \in {"created", "pending"}
          /\ \E g \in PollFuture(futs[i]) :
                /\ futs' = [j \in 1..Len(futs) |->
                               IF j = i THEN g
                               ELSE IF g.panic # "none" /\ futs[j].pc \in {"created", "pending"}
                                    THEN [futs[j] EXCEPT !.during = TRUE]
                                    ELSE futs[j]]
                /\ panicked' = (panicked \/ g.panic # "none")
    /\ UNCHANGED <<phase, endpoints, installed, listed, table, services>>
    /\ UNCHANGED streamVars

\* The caller drops a future that has finished.
Drop ==
    /\ \E i \in 1..Len(futs) :
          /\ futs[i].pc \in {"done", "unwound"}
          /\ futs' = [j \in 1..(Len(futs) - 1) |-> IF j < i THEN futs[j] ELSE futs[j + 1]]
    /\ UNCHANGED <<phase, endpoints, installed, listed, table, services, panicked>>
    /\ UNCHANGED streamVars

\* The transport asks Dispatcher d whether it is ready for a request.
PollReady ==
    /\ \E d \in 1..Len(services) :
          services' = [services EXCEPT ![d] = poll_ready(services[d]).svc]
    /\ UNCHANGED <<phase, endpoints, installed, listed, table, futs, panicked>>
    /\ UNCHANGED streamVars

\* call(req).await: one request at a time.
CallAwait ==
    /\ futs = <<>>
    /\ CallOn(RequestSet)

StreamIdle ==
    /\ input = <<>>
    /\ source = <<>>
    /\ delivered = <<>>
    /\ bodyDone = FALSE
    /\ polls = 0
    /\ dropped = FALSE
    /\ log = <<>>

Init ==
    /\ phase = "building"
    /\ endpoints = <<>>
    /\ installed = <<>>
    /\ listed = <<>>
    /\ table = <<>>
    /\ services = <<>>
    /\ futs = <<>>
    /\ panicked = FALSE
    /\ StreamIdle

Next == Install \/ Routes \/ Build \/ ServiceOnce \/ PollReady \/ CallAwait \/ Poll \/ Drop

Spec == Init /\ [][Next]_vars

(***************************************************************************)
(* SpecConc: the Router built by                                           *)
(*   builder().install(slow_panic, ANY /items/slow)                        *)
(*            .install(echo_id, GET /items/{id})                           *)
(*            .install(sync_panic, POST /boom).build()                     *)
(* (a state Spec reaches), its Dispatchers, and                            *)
(* futures of call held and polled concurrently.                           *)
(***************************************************************************)
ConcTable ==
    << Endpoint(Route("ANY", <<Lit("items"), Lit("slow")>>), "slow_panic"),
       Endpoint(Route("GET", <<Lit("items"), Cap("id")>>), "echo_id"),
       Endpoint(Route("POST", <<Lit("boom")>>), "sync_panic") >>

ConcRequests ==
    { HTTPRequest("GET", <<"items", "7">>, ""),
      HTTPRequest("GET", <<"items", "slow">>, ""),
      HTTPRequest("POST", <<"boom">>, "") }

\* call(req) while other futures are still held.
CallConc ==
    /\ Len(futs) < MaxInFlight
    /\ CallOn(ConcRequests)

InitConc ==
    /\ phase = "built"
    /\ endpoints = <<>>
    /\ installed = ConcTable
    /\ listed = <<>>
    /\ table = ConcTable
    /\ services = <<>>
    /\ futs = <<>>
    /\ panicked = FALSE
    /\ StreamIdle

NextConc == Service \/ PollReady \/ CallConc \/ Poll \/ Drop

SpecConc == InitConc /\ [][NextConc]_vars

(***************************************************************************)
(* The streaming body adapter. `source` is the stream handed to            *)
(* body_from_stream, as the items it has yet to yield; the Body draws one  *)
(* item from it each time the transport polls.                             *)
(***************************************************************************)
ByteSet == {0, 255}

\* An item of the stream (a Vec<u8>) and a data frame of the Body (a Bytes).
VecU8(d) == [t |-> "Vec", data |-> d]
Bytes(d) == [t |-> "Bytes", data |-> d]

\* Bytes::from(item)
BytesFrom(item) == Bytes(item.data)

\* ok_stream: stream.map(Ok), item by item.
ok_stream(item) == [ok |-> TRUE, val |-> item]

\* A stream that yields its items last first.
poll_next_reversed(stream) ==
    IF stream = <<>> THEN [item |-> None, rest |-> <<>>]
    ELSE [item |-> Some(ok_stream(stream[Len(stream)])),
          rest |-> SubSeq(stream, 1, Len(stream) - 1)]

\* A Body that reads one item ahead of the transport: each poll draws the item
\* it returns and the one after it.
poll_data_prefetch(body) ==
    IF body = <<>> THEN [frame |-> None, body |-> <<>>]
    ELSE [frame |-> Some([t |-> "Bytes", data |-> Head(body).data]),
          body |-> IF Len(body) > 1 THEN Tail(Tail(body)) ELSE <<>>]

\* Stream::poll_next of the wrapped stream: the next item, if any, and the rest.
poll_next(stream) ==
    IF stream = <<>> THEN [item |-> None, rest |-> <<>>]
    ELSE [item |-> Some(ok_stream(Head(stream))), rest |-> Tail(stream)]

\* body_from_stream(stream): the Body, holding the stream unpolled.
body_from_stream(stream) == stream

\* One poll of the Body by the transport: Some(frame) and the Body left, or None
\* at the end of the stream.
poll_data(body) ==
    LET n == poll_next(body)
    IN  IF n.item.some
        THEN [frame |-> Some(BytesFrom(n.item.val.val)), body |-> n.rest]
        ELSE [frame |-> None, body |-> n.rest]

RECURSIVE SeqsUpTo(_, _)
SeqsUpTo(S, n) ==
    IF n = 0 THEN {<<>>}
    ELSE LET shorter == SeqsUpTo(S, n - 1)
         IN  shorter \cup {Append(q, x) : q \in shorter, x \in S}

\* The streams tried: up to MaxChunks items of up to MaxChunkLen bytes each.
StreamInputs == SeqsUpTo({VecU8(d) : d \in SeqsUpTo(ByteSet, MaxChunkLen)}, MaxChunks)

\* The transport polls the Body it holds.
PollBody ==
    /\ ~bodyDone
    /\ ~dropped
    /\ LET r == poll_data(source)
       IN  /\ source' = r.body
           /\ delivered' = IF r.frame.some THEN Append(delivered, r.frame.val) ELSE delivered
           /\ bodyDone' = ~r.frame.some
    /\ polls' = polls + 1
    /\ UNCHANGED <<input, dropped, log>>
    /\ UNCHANGED routerVars

\* The connection goes away: the transport drops the Body, and with it the
\* stream and the items it has not yielded; nothing polls them any more.
DropBody ==
    /\ ~dropped
    /\ dropped' = TRUE
    /\ UNCHANGED <<input, source, delivered, bodyDone, polls, log>>
    /\ UNCHANGED routerVars

InitStream ==
    /\ phase = "building"
    /\ endpoints = <<>>
    /\ installed = <<>>
    /\ listed = <<>>
    /\ table = <<>>
    /\ services = <<>>
    /\ futs = <<>>
    /\ panicked = FALSE
    /\ input \in StreamInputs
    /\ source = body_from_stream(input)
    /\ delivered = <<>>
    /\ bodyDone = FALSE
    /\ polls = 0
    /\ dropped = FALSE
    /\ log = <<>>

NextStream == PollBody \/ DropBody

SpecStream == InitStream /\ [][NextStream]_vars

(***************************************************************************)
(* The byte-generation handlers, called directly. `log` keeps each request *)
(* answered with its Result.                                               *)
(***************************************************************************)
MaxLog == 3         \* byte-generation requests answered in SpecBytes

StreamBody(body) == [text |-> "", data |-> <<>>, stream |-> body]

\* Option::unwrap_or
unwrap_or(opt, default) == IF opt.some THEN opt.val ELSE default

\* A chunking that yields full chunks only and drops the remainder.
chunks_exact(items, capacity) ==
    [k \in 1..(Len(items) \div capacity) |->
        VecU8(SubSeq(items, (k - 1) * capacity + 1, k * capacity))]

\* stream::iter(items).chunks(capacity), capacity >= 1: the Vec<u8> items of the
\* chunked stream, each of `capacity` bytes but for a shorter last one.
chunks(items, capacity) ==
    [k \in 1..((Len(items) + capacity - 1) \div capacity) |->
        VecU8(SubSeq(items, (k - 1) * capacity + 1,
                     IF k * capacity < Len(items) THEN k * capacity ELSE Len(items)))]

\* stream_bytes(req): the Results it may return.
stream_bytes(creq) ==
    LET n == IF param(creq, "n").some THEN ParseU32(param(creq, "n").val) ELSE None
        query == QueryDecode(creq.req.query)
    IN  IF ~n.some THEN {Err(bad_request)}
        ELSE IF ~query.some THEN {Err(bad_request)}
        ELSE {Ok(Response(200,
                          [content_type |-> OctetStream, content_length |-> Some(Len(data))],
                          StreamBody(body_from_stream(
                              chunks(data, unwrap_or(query.val.chunk_size, 1))))))
              : data \in iter_bytes(n.val, query.val.seed)}

\* The routes the two handlers are installed under.
BytesRoute == Route("GET", <<Lit("bytes"), Cap("n")>>)
StreamBytesRoute == Route("GET", <<Lit("stream-bytes"), Cap("n")>>)

\* The Normalized Request of a request matched by `rt`.
Normalized(rt, req) == RequestNew(req, NoAddr, matches(rt, req).val)

BytesRequests ==
    {HTTPRequest("GET", <<"bytes", n>>, q) :
        n \in {"0", "2", "3", "x"}, q \in {"", "seed=1", "seed=2", "seed=x"}}

StreamBytesRequests ==
    {HTTPRequest("GET", <<"stream-bytes", n>>, q) :
        n \in {"0", "1", "2", "3", "7", "x"},
        q \in {"", "seed=1", "seed=2", "seed=x", "chunk_size=2", "seed=1&chunk_size=1",
               "seed=1&chunk_size=2", "seed=1&chunk_size=3", "seed=2&chunk_size=2"}}

\* bytes(req) is called and returns.
BytesCall ==
    /\ Len(log) < MaxLog
    /\ \E req \in BytesRequests :
          \E res \in bytes(Normalized(BytesRoute, req)) :
              log' = Append(log, [req |-> req, res |-> res])
    /\ UNCHANGED <<input, source, delivered, bodyDone, polls, dropped>>
    /\ UNCHANGED routerVars

\* stream_bytes(req) is called and returns; the transport takes the body of the
\* Response, if there is one.
StreamBytesCall ==
    /\ log = <<>>
    /\ \E req \in StreamBytesRequests :
          \E res \in stream_bytes(Normalized(StreamBytesRoute, req)) :
              /\ log' = <<[req |-> req, res |-> res]>>
              /\ input' = (IF res.t = "ok" THEN res.resp.body.stream ELSE <<>>)
              /\ source' = (IF res.t = "ok" THEN res.resp.body.stream ELSE <<>>)
    /\ UNCHANGED <<delivered, bodyDone, polls, dropped>>
    /\ UNCHANGED routerVars

\* The transport polls, or drops, the body of the Response it was given.
PollResponseBody ==
    /\ log # <<>>
    /\ PollBody

DropResponseBody ==
    /\ log # <<>>
    /\ DropBody

NextBytes == BytesCall

SpecBytes == Init /\ [][NextBytes]_vars

NextStreamBytes == StreamBytesCall \/ PollResponseBody \/ DropResponseBody

SpecStreamBytes == Init /\ [][NextStreamBytes]_vars

(***************************************************************************)
(* Properties.                                                             *)
(***************************************************************************)
Polled(f) == f.pc # "created"

\* The table indexes of the endpoints whose pattern matches req.
Matching(eps, req) == {k \in 1..Len(eps) : matches(eps[k].route, req).some}

Min(S) == CHOOSE x \in S : \A y \in S : x <= y

StatusOf(f) == f.result.val.resp.status

\* C1: lookup is first-match-wins: a polled request that some endpoint matches
\* was routed to the matching endpoint of smallest registration index, and the
\* handler of that endpoint is the only one invoked for it.
C1_FirstMatchWins ==
    \A i \in 1..Len(futs) :
        LET f == futs[i]
            M == Matching(table, f.req)
        IN  (Polled(f) /\ M # {}) =>
                /\ f.index = Min(M)
                /\ f.invoked = <<Min(M)>>

C1_Witness ==
    \E i \in 1..Len(futs) :
        /\ futs[i].pc = "done"
        /\ Matching(table, futs[i].req) = {1, 2}
        /\ table[1].handler # table[2].handler
        /\ futs[i].invoked = <<1>>

\* C4: a routing miss yields 404: a polled request that no endpoint of the table
\* matches (every request, when the table is empty) is finished with a Response
\* of status 404, and no handler was invoked for it.
C4_MissGives404 ==
    \A i \in 1..Len(futs) :
        LET f == futs[i]
        IN  (Polled(f) /\ Matching(table, f.req) = {}) =>
                /\ f.pc = "done"
                /\ f.result.some
                /\ f.result.val.t = "ok"
                /\ StatusOf(f) = 404
                /\ f.invoked = <<>>

C4_Witness ==
    \E i \in 1..Len(futs) :
        /\ Len(table) = 2
        /\ Polled(futs[i])
        /\ Matching(table, futs[i].req) = {}
        /\ \E k \in 1..Len(table) : Len(table[k].route.path) = Len(futs[i].req.path)
        /\ StatusOf(futs[i]) = 404

\* What the pattern of `rt` demands of a request, position by position.
ExactMatch(rt, req) ==
    /\ rt.method = "ANY" \/ rt.method = req.method
    /\ Len(rt.path) = Len(req.path)
    /\ \A p \in 1..Len(rt.path) :
          IF rt.path[p].kind = "lit" THEN rt.path[p].v = req.path[p]
          ELSE req.path[p] # ""

\* C8: path matching is exact: matches succeeds exactly when the method agrees
\* (or the pattern takes any method), the segment counts are equal, every literal
\* equals its segment and every capture faces a non-empty segment; so the
\* endpoint a request is routed to satisfies all of these, and a request that is
\* routed nowhere satisfies them for no endpoint (a prefix is no match).
C8_ExactMatch ==
    \A i \in 1..Len(futs) :
        LET f == futs[i]
        IN  /\ \A k \in 1..Len(table) :
                  matches(table[k].route, f.req).some <=> ExactMatch(table[k].route, f.req)
            /\ Polled(f) =>
                  /\ f.index > 0 => ExactMatch(table[f.index].route, f.req)
                  /\ f.index = 0 => \A k \in 1..Len(table) : ~ExactMatch(table[k].route, f.req)

\* A request one segment longer than a pattern it agrees with is routed nowhere.
C8_Witness ==
    \E i \in 1..Len(futs) :
        LET f == futs[i]
        IN  /\ Polled(f)
            /\ f.index = 0
            /\ \E k \in 1..Len(table) :
                  /\ table[k].route.method = f.req.method
                  /\ Len(table[k].route.path) = 2
                  /\ Len(f.req.path) = 3
                  /\ ExactMatch(table[k].route,
                                [f.req EXCEPT !.path = SubSeq(f.req.path, 1, 2)])

\* The captures of pattern rt on request req: one entry per capture segment.
CapturesOf(rt, req) ==
    {[name |-> rt.path[p].v, value |-> req.path[p]] :
        p \in {q \in 1..Len(rt.path) : rt.path[q].kind = "cap"}}

ItemsRoute == Route("GET", <<Lit("items"), Cap("id")>>)
GetItems7 == HTTPRequest("GET", <<"items", "7">>, "")

\* C9: the captures reach the handler exactly: the Request handed to the handler
\* of the matched endpoint carries one entry per capture segment of its pattern,
\* name to the request's segment at that position, and none for a literal; with
\* the one endpoint GET /items/{id} echoing id, GET /items/7 answers 200 "7".
C9_Captures ==
    \A i \in 1..Len(futs) :
        LET f == futs[i]
        IN  /\ (Polled(f) /\ f.index > 0) =>
                  /\ f.creq.some
                  /\ f.creq.val.params = CapturesOf(table[f.index].route, f.req)
            /\ (f.pc = "done" /\ table = <<Endpoint(ItemsRoute, "echo_id")>> /\ f.req = GetItems7) =>
                  /\ f.result.val.t = "ok"
                  /\ StatusOf(f) = 200
                  /\ f.result.val.resp.body = TextBody("7")

C9_Witness ==
    \E i \in 1..Len(futs) :
        /\ futs[i].pc = "done"
        /\ table = <<Endpoint(ItemsRoute, "echo_id")>>
        /\ futs[i].req = GetItems7
        /\ futs[i].creq.val.params = {[name |-> "id", value |-> "7"]}
        /\ futs[i].result.val.resp.body = TextBody("7")

InstalledRoutes == [i \in 1..Len(installed) |-> installed[i].route]

\* C10: registration order is preserved: the builder holds exactly the installed
\* endpoints in the order of the install calls, an install appends one entry and
\* changes none before it, routes() returns their routes in that order, and
\* build() yields a table of the same endpoints in the same order.
C10_RegistrationOrder ==
    /\ [](/\ phase = "building" => endpoints = installed
          /\ phase = "built" => table = installed)
    /\ [][/\ (listed' # listed /\ listed' # <<>>) => listed' = InstalledRoutes
          /\ (phase' = "building" /\ endpoints' # endpoints) =>
                /\ Len(endpoints') = Len(endpoints) + 1
                /\ SubSeq(endpoints', 1, Len(endpoints)) = endpoints]_vars

C10_Witness ==
    /\ phase = "built"
    /\ Len(table) = 3
    /\ table[1] # table[2]
    /\ table[2] # table[3]
    /\ table = installed

\* C2: a panic of the handler at any point of its invocation (in the call that
\* produces its future, or in any poll of that future) ends in exactly one
\* Response of status 500, and never leaves the future of RouterService::call.
C2_PanicGives500 ==
    \A i \in 1..Len(futs) :
        LET f == futs[i]
        IN  /\ f.pc # "unwound"
            /\ f.panic # "none" =>
                  /\ f.pc = "done"
                  /\ f.result.val.t = "ok"
                  /\ StatusOf(f) = 500

\* The outcomes of the handler of finished future f at its last poll.
LastOutcomes(f) == HandlerPoll(table[f.index].handler, f.creq.val, f.hpolls)

\* C3: failure isolation across requests: whatever panics happened before or
\* while a request was in flight, on its own or on another Dispatcher, the
\* request is routed to its first matching endpoint, stays pollable until it is
\* finished, and finishes with its own handler's outcome (GET /items/7 on the
\* healthy endpoint: 200 "7").
C3_FailureIsolation ==
    \A i \in 1..Len(futs) :
        LET f == futs[i]
            M == Matching(table, f.req)
        IN  /\ Polled(f) => f.index = (IF M = {} THEN 0 ELSE Min(M))
            /\ f.pc \in {"created", "pending"} => PollFuture(f) # {}
            /\ (f.pc = "done" /\ f.index > 0 /\ f.panic = "none") =>
                  \E out \in LastOutcomes(f) :
                      /\ out.t = "ready"
                      /\ f.result = Some(IF out.res.t = "ok" THEN out.res
                                         ELSE into_result(out.res.err))
            /\ (f.pc = "done" /\ f.req = GetItems7) =>
                  /\ StatusOf(f) = 200
                  /\ f.result.val.resp.body = TextBody("7")

\* A healthy request in flight during a panic and one made after it, on two
\* Dispatchers, have both finished with 200.
C3_Witness ==
    /\ panicked
    /\ \E i, j \in 1..Len(futs) :
          /\ futs[i].during /\ futs[i].pc = "done" /\ StatusOf(futs[i]) = 200
          /\ futs[j].after /\ futs[j].pc = "done" /\ StatusOf(futs[j]) = 200
          /\ futs[i].client_addr # futs[j].client_addr

C6_Containment ==
    \A i \in 1..Len(futs) :
        LET f == futs[i]
        IN  f.pc \in {"done", "unwound"} =>
                /\ f.pc = "done"
                /\ f.result.some
                /\ \/ f.result.val.t = "ok"
                   \/ /\ f.result.val.t = "hard_error"
                      /\ f.index > 0
                      /\ \E out \in LastOutcomes(f) :
                            out.t = "ready" /\ out.res.t = "err" /\ ~out.res.err.wire

Datas(q) == [i \in 1..Len(q) |-> q[i].data]

RECURSIVE Concat(_)
Concat(q) == IF q = <<>> THEN <<>> ELSE Head(q) \o Concat(Tail(q))

\* C7: streaming order: the frames the transport has pulled, followed by the
\* items not yet drawn, are the input chunks, each once and in production order;
\* at the end of the body the frames are exactly the input chunks, so the body's
\* bytes are their concatenation, and the empty stream gives the empty body.
C7_StreamOrder ==
    /\ Datas(delivered) \o Datas(source) = Datas(input)
    /\ \A i \in 1..Len(delivered) : delivered[i].t = "Bytes"
    /\ bodyDone =>
          /\ source = <<>>
          /\ Len(delivered) = Len(input)
          /\ \A i \in 1..Len(input) : delivered[i].data = input[i].data
          /\ Concat(Datas(delivered)) = Concat(Datas(input))
          /\ input = <<>> => delivered = <<>>

C7_Witness ==
    /\ bodyDone
    /\ Len(input) = 2
    /\ input[1].data # input[2].data
    /\ Len(delivered) = 2
    /\ delivered[1].data = input[1].data

\* C11: the Route Table is immutable after build(): whatever lookups, dispatches,
\* handler outcomes and panics have happened on whichever Dispatchers, the table
\* behind the Arc is the endpoint sequence build() produced, and every Dispatcher
\* and every future of call reads that same table through its Arc.
C11_TableImmutable ==
    phase = "built" =>
        /\ table = build(installed)
        /\ \A d \in 1..Len(services) :
              /\ services[d].router = "arc"
              /\ Deref(services[d].router) = build(installed)
        /\ \A i \in 1..Len(futs) :
              /\ futs[i].router = "arc"
              /\ Deref(futs[i].router) = build(installed)

\* Two Dispatchers, a handler has panicked, and two futures of different
\* Dispatchers have been routed, one of them after the panic.
C11_Witness ==
    /\ Len(services) = 2
    /\ panicked
    /\ table = ConcTable
    /\ \E i, j \in 1..Len(futs) :
          /\ futs[i].panic # "none"
          /\ futs[j].after /\ futs[j].pc = "done" /\ futs[j].index > 0
          /\ futs[i].client_addr # futs[j].client_addr

\* C12: readiness is unconditional: in every state of every Dispatcher (no
\* request yet, requests in flight, after errors and panics) poll_ready answers
\* Ready(Ok(())) and leaves the Dispatcher as it was.
C12_AlwaysReady ==
    \A d \in 1..Len(services) :
        /\ poll_ready(services[d]).poll = Ready(Ok("()"))
        /\ poll_ready(services[d]).svc = services[d]

\* A Dispatcher with an unfinished request in flight, after a panic.
C12_Witness ==
    /\ services # <<>>
    /\ panicked
    /\ \E i \in 1..Len(futs) : futs[i].pc = "pending"
    /\ \E i \in 1..Len(futs) : futs[i].pc = "unwound"

\* The Response of a request whose handler panicked in the first poll of its
\* future.
FirstPollPanicResult == Some(or_else(handle_panics(Panic)))

\* C13: the boundary works across suspension points: a handler whose future
\* returned Pending one or more times and panicked in a later poll has its panic
\* caught, and the request gets a Response of status 500, the same Response as
\* for a panic in the first poll.
C13_PanicAfterPending ==
    \A i \in 1..Len(futs) :
        LET f == futs[i]
        IN  (f.index > 0 /\ f.hpolls > 1 /\ f.pc # "pending"
                /\ \E out \in HandlerPoll(table[f.index].handler, f.creq.val, f.hpolls) :
                      out.t = "panic") =>
                /\ f.pc = "done"
                /\ f.panic = "poll"
                /\ f.result.val.t = "ok"
                /\ StatusOf(f) = 500
                /\ f.result = FirstPollPanicResult

\* The handler of /items/slow panicked in its second poll, after a Pending.
C13_Witness ==
    \E i \in 1..Len(futs) :
        /\ futs[i].index > 0
        /\ table[futs[i].index].handler = "slow_panic"
        /\ futs[i].hpolls = 2
        /\ futs[i].panic = "poll"
        /\ futs[i].pc = "done"

\* C14: no retry: a polled request has invoked exactly the handler of its first
\* matching endpoint, once, and none when nothing matches; the handler's future
\* was polled up to its first outcome that is not Pending (a result or a panic)
\* and never after it, and not at all when the call of the handler panicked.
C14_NoRetry ==
    \A i \in 1..Len(futs) :
        LET f == futs[i]
            M == Matching(table, f.req)
        IN  /\ Len(f.invoked) <= 1
            /\ ~Polled(f) => (f.invoked = <<>> /\ f.hpolls = 0)
            /\ Polled(f) => f.invoked = (IF M = {} THEN <<>> ELSE <<Min(M)>>)
            /\ (Polled(f) /\ M = {}) => (f.hpolls = 0 /\ f.pc = "done")
            /\ f.panic = "call" => f.hpolls = 0
            /\ f.index > 0 =>
                  /\ \A n \in 1..f.hpolls :
                        n < f.hpolls =>
                            Pending \in HandlerPoll(table[f.index].handler, f.creq.val, n)
                  /\ (f.pc = "pending" /\ f.hpolls > 0) =>
                        Pending \in HandlerPoll(table[f.index].handler, f.creq.val, f.hpolls)
                  /\ (f.pc = "done") =>
                        /\ f.hpolls > 0
                        /\ HandlerPoll(table[f.index].handler, f.creq.val, f.hpolls) # {Pending}

\* GET /items/slow matches two endpoints of the table; the handler of the first
\* panicked, and the request finished with that one invocation.
C14_Witness ==
    \E i \in 1..Len(futs) :
        /\ futs[i].pc = "done"
        /\ futs[i].panic = "poll"
        /\ Cardinality(Matching(table, futs[i].req)) = 2
        /\ futs[i].invoked = <<Min(Matching(table, futs[i].req))>>
        /\ futs[i].hpolls = 2

\* The Response of a handler that returns the ordinary internal-server-error
\* Error.
InternalErrorResponse == or_else(Err(internal_server_error))

\* C15: the Response for a catastrophic handler failure is fixed: whatever the
\* payload of the panic and wherever it was raised (in the call of the handler
\* or in any poll of its future), the request ends with one and the same
\* Response, of status 500, which is also the Response of a handler that
\* returns the internal-server-error Error.
C15_FixedFailureResponse ==
    \A i \in 1..Len(futs) :
        LET f == futs[i]
        IN  /\ InternalErrorResponse.t = "ok"
            /\ InternalErrorResponse.resp.status = 500
            /\ f.panic # "none" =>
                  /\ f.pc = "done"
                  /\ f.result = Some(InternalErrorResponse)
            /\ (f.pc = "done" /\ f.index > 0 /\ f.panic = "none"
                   /\ Ready(Err(internal_server_error)) \in LastOutcomes(f)) =>
                  f.result = Some(InternalErrorResponse)

\* C16: the peer address is fixed per Dispatcher: every future of call, and the
\* Normalized Request it hands to the handler, carries the optional address its
\* own Dispatcher was created with (None when none was given), whatever other
\* requests and Dispatchers there are; the Normalized Request also carries the
\* original request and the Path Match of the endpoint that matched.
C16_PeerAddrPerDispatcher ==
    \A i \in 1..Len(futs) :
        LET f == futs[i]
        IN  /\ f.svc \in 1..Len(services)
            /\ f.client_addr = services[f.svc].client_addr
            /\ f.creq.some =>
                  /\ f.index > 0
                  /\ f.creq.val.client_addr = services[f.svc].client_addr
                  /\ f.creq.val.req = f.req
                  /\ f.creq.val.params = matches(table[f.index].route, f.req).val

\* Two Dispatchers, the first made with no address and the second with one;
\* each has handed a request to a handler, the second Dispatcher's first.
C16_Witness ==
    /\ Len(services) = 2
    /\ services[1].client_addr = NoAddr
    /\ services[2].client_addr = PeerAddr
    /\ Len(futs) = 2
    /\ futs[1].svc = 2 /\ futs[1].creq.some /\ futs[1].creq.val.client_addr = PeerAddr
    /\ futs[2].svc = 1 /\ futs[2].creq.some /\ futs[2].creq.val.client_addr = NoAddr
    /\ futs[1].creq.val.params = {[name |-> "id", value |-> "7"]}

\* The items drawn from the stream so far.
Drawn == Len(input) - Len(source)

\* C17: chunk production is pull-driven and stops with polling: at any moment
\* the items drawn from the producer, and the frames produced, are at most as
\* many as the polls the transport has made; an item is drawn and a frame
\* produced only in a step that is a poll, one item per poll; and once the
\* transport has dropped the Body nothing more is drawn or produced.
C17_PullDriven ==
    /\ [](/\ Drawn <= polls
          /\ Len(delivered) <= polls
          /\ Len(delivered) = Drawn)
    /\ [][/\ (source' # source \/ delivered' # delivered) =>
                /\ polls' = polls + 1
                /\ ~dropped
                /\ Len(source') = Len(source) - 1
                /\ Len(delivered') = Len(delivered) + 1
          /\ dropped =>
                /\ dropped'
                /\ source' = source
                /\ delivered' = delivered
                /\ polls' = polls]_vars

\* The Body was dropped after one frame, with an item of the stream not drawn.
C17_Witness ==
    /\ dropped
    /\ polls = 1
    /\ Len(delivered) = 1
    /\ source # <<>>
    /\ ~bodyDone

\* The count and the query parameters of a logged byte-generation request.
CountOf(e) == ParseU32(e.req.path[2])
QueryOf(e) == QueryDecode(e.req.query)

\* C19: deterministic generation: any two answered requests to bytes with the
\* same count n and the same explicit seed have byte-identical bodies of
\* exactly n bytes, whichever requests were answered before or between them.
C19_SameSeedSameBytes ==
    \A i, j \in 1..Len(log) :
        LET a == log[i]
            b == log[j]
        IN  (/\ CountOf(a).some /\ QueryOf(a).some /\ QueryOf(a).val.seed.some
             /\ CountOf(b) = CountOf(a)
             /\ QueryOf(b).some /\ QueryOf(b).val.seed = QueryOf(a).val.seed) =>
                /\ a.res.t = "ok"
                /\ b.res.t = "ok"
                /\ a.res.resp.status = 200
                /\ Len(a.res.resp.body.data) = CountOf(a).val
                /\ a.res.resp.body.data = b.res.resp.body.data

\* GET /bytes/3?seed=1 was answered twice with the same three bytes, and between
\* the two an unseeded request for three bytes got other bytes.
C19_Witness ==
    /\ Len(log) = 3
    /\ log[1].req = HTTPRequest("GET", <<"bytes", "3">>, "seed=1")
    /\ log[3].req = log[1].req
    /\ log[2].req = HTTPRequest("GET", <<"bytes", "3">>, "")
    /\ log[2].res.resp.body.data # log[1].res.resp.body.data
    /\ Len(log[1].res.resp.body.data) = 3
    /\ log[3].res = log[1].res

\* The data frames a Body gives when it is polled to its end.
RECURSIVE Frames(_)
Frames(body) ==
    LET r == poll_data(body)
    IN  IF r.frame.some THEN <<r.frame.val>> \o Frames(r.body) ELSE <<>>

\* The bodies bytes returns for the count and the query of logged request e.
BufferedBodies(e) ==
    {r.resp.body.data :
        r \in {x \in bytes(Normalized(BytesRoute,
                                      HTTPRequest("GET", <<"bytes", e.req.path[2]>>, e.req.query))) :
                  x.t = "ok"}}

\* C20: streamed and buffered generation agree: for a count n, an explicit seed
\* and a chunk_size c >= 1 (1 when absent), stream_bytes answers 200 with
\* Content-Length n and a body of ceil(n/c) chunks, each of c bytes but for a
\* shorter, non-empty last one, whose concatenation has n bytes and is the body
\* bytes returns for the same n and seed; what the transport has pulled and
\* what is left to pull are together those bytes.
C20_StreamedEqualsBuffered ==
    \A i \in 1..Len(log) :
        LET e == log[i]
            n == CountOf(e)
            c == unwrap_or(QueryOf(e).val.chunk_size, 1)
        IN  (/\ e.req.path[1] = "stream-bytes"
             /\ n.some /\ QueryOf(e).some /\ QueryOf(e).val.seed.some /\ c >= 1) =>
                /\ e.res.t = "ok"
                /\ e.res.resp.status = 200
                /\ e.res.resp.headers.content_length = Some(n.val)
                /\ LET frames == Frames(e.res.resp.body.stream)
                       whole == Concat(Datas(frames))
                   IN  /\ Len(frames) = (n.val + c - 1) \div c
                       /\ \A k \in 1..Len(frames) :
                             Len(frames[k].data) =
                                 IF k < Len(frames) THEN c ELSE n.val - (Len(frames) - 1) * c
                       /\ \A k \in 1..Len(frames) : Len(frames[k].data) \in 1..c
                       /\ Len(whole) = n.val
                       /\ BufferedBodies(e) = {whole}
                       /\ Concat(Datas(delivered)) \o Concat(Datas(source)) = whole
                       /\ bodyDone => delivered = frames

\* GET /stream-bytes/7?seed=1&chunk_size=3 was answered and its body pulled to
\* the end: three chunks, the last of one byte.
C20_Witness ==
    /\ log # <<>>
    /\ log[1].req = HTTPRequest("GET", <<"stream-bytes", "7">>, "seed=1&chunk_size=3")
    /\ bodyDone
    /\ Len(delivered) = 3
    /\ Len(delivered[1].data) = 3
    /\ Len(delivered[3].data) = 1

====
